---- MODULE Spec2Model ----
(* Model of ceph_rca_prediction.py: one run of the __main__ sequence       *)
(* (collect five metrics from Prometheus, derive root causes, impact and   *)
(* actions, predict the failure risk, render the PDF), and the three       *)
(* analysis functions applied to arbitrary metrics records.                *)
EXTENDS Integers, Sequences, FiniteSets, TLC

\* Largest sample value a Prometheus gauge takes in the model.
MaxVal == 2

\* ------------------------------------------------------------------
\* Prometheus responses and query_prometheus (lines 17-24)
\* ------------------------------------------------------------------

\* The five queries of collect_ceph_metrics, in dict-display order.
Keys == <<"cluster_health", "osd_up", "osd_in", "pg_degraded", "pg_down">>

NumKeys == Len(Keys)

\* Sample value strings: decimal integers, a float spelling, and garbage.
SampleTexts == {ToString(n) : n \in 0..MaxVal} \cup {"1.0", "abc"}

\* What requests.get can produce: an exception, or an HTTP response with a
\* status code and a body that is JSON or not.
Responses ==
    {[kind |-> "exception", code |-> 0, isjson |-> FALSE, status |-> "", result |-> <<>>]}
    \cup {[kind |-> "http", code |-> 503, isjson |-> FALSE, status |-> "", result |-> <<>>]}
    \cup {[kind |-> "http", code |-> 200, isjson |-> FALSE, status |-> "", result |-> <<>>]}
    \cup {[kind |-> "http", code |-> 200, isjson |-> TRUE, status |-> s, result |-> r] :
             s \in {"success", "error"},
             r \in {<<>>} \cup {<<t>> : t \in SampleTexts}}

NoResponse == [kind |-> "none", code |-> 0, isjson |-> FALSE, status |-> "", result |-> <<>>]

\* Python's float() on a sample string: the number, or ValueError.
float(s) ==
    IF s = "1.0" THEN [ok |-> TRUE, val |-> 1]
    ELSE IF \E n \in 0..MaxVal : ToString(n) = s
         THEN [ok |-> TRUE, val |-> CHOOSE n \in 0..MaxVal : ToString(n) = s]
         ELSE [ok |-> FALSE, val |-> 0]

Raise(e) == [raised |-> e, value |-> 0, defaulted |-> FALSE]

Return(v, d) == [raised |-> "", value |-> v, defaulted |-> d]

NoOutcome == [raised |-> "nocall", value |-> 0, defaulted |-> FALSE]

\* Mutant: raise_for_status() dropped, a 5xx body is read as an empty answer.
query_prometheus_no_raise_for_status(r) ==
    IF r.kind = "exception" THEN Raise("RequestException")
    ELSE IF ~r.isjson THEN Return(0, TRUE)
    ELSE IF r.status = "success" /\ r.result # <<>>
         THEN IF float(r.result[1]).ok
              THEN Return(float(r.result[1]).val, FALSE)
              ELSE Raise("ValueError")
         ELSE Return(0, TRUE)

\* Mutant: the default for an absent metric is 1 instead of 0.
query_prometheus_default_one(r) ==
    IF r.kind = "exception" THEN Raise("RequestException")
    ELSE IF r.code >= 400 THEN Raise("HTTPError")
    ELSE IF ~r.isjson THEN Raise("JSONDecodeError")
    ELSE IF r.status = "success" /\ r.result # <<>>
         THEN IF float(r.result[1]).ok
              THEN Return(float(r.result[1]).val, FALSE)
              ELSE Raise("ValueError")
         ELSE Return(1, TRUE)

query_prometheus(r) ==
    IF r.kind = "exception" THEN Raise("RequestException")
    ELSE IF r.code >= 400 THEN Raise("HTTPError")
    ELSE IF ~r.isjson THEN Raise("JSONDecodeError")
    ELSE IF r.status = "success" /\ r.result # <<>>
         THEN IF float(r.result[1]).ok
              THEN Return(float(r.result[1]).val, FALSE)
              ELSE Raise("ValueError")
         ELSE Return(0, TRUE)

\* ------------------------------------------------------------------
\* Analysis functions (lines 45-113)
\* ------------------------------------------------------------------

MetricsRecords ==
    [cluster_health : 0..MaxVal, osd_up : 0..MaxVal, osd_in : 0..MaxVal,
     pg_degraded : 0..MaxVal, pg_down : 0..MaxVal]

\* if cond: lst.append(item)
AppendIf(cond, lst, item) == IF cond THEN Append(lst, item) ELSE lst

\* Mutant: the pg_down check is missing.
generate_root_cause_no_pg_down(metrics) ==
    LET c1 == AppendIf(metrics.cluster_health # 1, <<>>,
                       "Ceph cluster is reporting HEALTH_WARN or HEALTH_ERR")
        c2 == AppendIf(metrics.osd_up < metrics.osd_in, c1,
                       "One or more OSDs are down")
        c3 == AppendIf(metrics.pg_degraded > 0, c2,
                       "Placement Groups are in degraded state")
    IN  AppendIf(c3 = <<>>, c3, "No anomalies detected in Ceph cluster")

generate_root_cause(metrics) ==
    LET c1 == AppendIf(metrics.cluster_health # 1, <<>>,
                       "Ceph cluster is reporting HEALTH_WARN or HEALTH_ERR")
        c2 == AppendIf(metrics.osd_up < metrics.osd_in, c1,
                       "One or more OSDs are down")
        c3 == AppendIf(metrics.pg_degraded > 0, c2,
                       "Placement Groups are in degraded state")
        c4 == AppendIf(metrics.pg_down > 0, c3,
                       "One or more Placement Groups are down")
    IN  AppendIf(c4 = <<>>, c4, "No anomalies detected in Ceph cluster")

\* Mutant: the "if not impact" fallback is missing.
derive_impact_and_actions_no_fallback(metrics) ==
    LET h == metrics.cluster_health # 1
        o == metrics.osd_up < metrics.osd_in
        p == metrics.pg_degraded > 0
    IN  [impact |->
            AppendIf(p, AppendIf(o, AppendIf(h, <<>>,
                "Potential SLA breach and reduced cluster reliability"),
                "Reduced data redundancy and higher data loss risk"),
                "I/O performance degradation for applications"),
         immediate |->
            AppendIf(p, AppendIf(o, AppendIf(h, <<>>,
                "Investigate Ceph health warnings immediately"),
                "Restart or replace the failed OSD"),
                "Allow PG recovery and monitor backfill progress"),
         preventive |->
            AppendIf(p, AppendIf(o, AppendIf(h, <<>>,
                "Enable proactive health alerts and capacity monitoring"),
                "Implement disk health checks and predictive failure analysis"),
                "Tune recovery limits and add OSD capacity")]

derive_impact_and_actions(metrics) ==
    LET h == metrics.cluster_health # 1
        o == metrics.osd_up < metrics.osd_in
        p == metrics.pg_degraded > 0
        impact3 ==
            AppendIf(p, AppendIf(o, AppendIf(h, <<>>,
                "Potential SLA breach and reduced cluster reliability"),
                "Reduced data redundancy and higher data loss risk"),
                "I/O performance degradation for applications")
        immediate3 ==
            AppendIf(p, AppendIf(o, AppendIf(h, <<>>,
                "Investigate Ceph health warnings immediately"),
                "Restart or replace the failed OSD"),
                "Allow PG recovery and monitor backfill progress")
        preventive3 ==
            AppendIf(p, AppendIf(o, AppendIf(h, <<>>,
                "Enable proactive health alerts and capacity monitoring"),
                "Implement disk health checks and predictive failure analysis"),
                "Tune recovery limits and add OSD capacity")
    IN  [impact |-> AppendIf(impact3 = <<>>, impact3,
                             "No customer-visible impact detected"),
         immediate |-> AppendIf(impact3 = <<>>, immediate3,
                                "No immediate remediation required"),
         preventive |-> AppendIf(impact3 = <<>>, preventive3,
                                 "Continue standard monitoring and audits")]

predict_failure_score(metrics) ==
    (IF metrics.cluster_health # 1 THEN 2 ELSE 0)
    + (IF metrics.osd_up < metrics.osd_in THEN 2 ELSE 0)
    + (IF metrics.pg_degraded > 0 THEN 1 ELSE 0)

predict_failure(metrics) ==
    LET score == predict_failure_score(metrics)
    IN  IF score >= 4 THEN "HIGH RISK"
        ELSE IF score >= 2 THEN "MEDIUM RISK"
        ELSE "LOW RISK"

\* ------------------------------------------------------------------
\* State
\* ------------------------------------------------------------------

VARIABLES
    pc,           \* position in the __main__ sequence
    vals,         \* values already evaluated in the dict display of collect_ceph_metrics
    defaulted,    \* history: keys whose value came from "return 0" (line 24)
    call,         \* the query_prometheus call in progress: key, response, outcome
    bound,        \* names bound in the module namespace
    metrics, root_causes, impact, immediate, preventive, risk,
    pdf_calls,    \* number of invocations of generate_pdf
    pdf_args,     \* arguments of the last generate_pdf invocation
    pdf_written,  \* doc.build completed
    error,        \* uncaught exception that ended the run, "" if none
    calls         \* history: number of calls made by the function harness

vars == <<pc, vals, defaulted, call, bound, metrics, root_causes, impact,
          immediate, preventive, risk, pdf_calls, pdf_args, pdf_written,
          error, calls>>

results == <<root_causes, impact, immediate, preventive, risk>>

\* Number of repeated calls the function harness makes.
MaxCalls == 4

\* Value of a name that is not bound yet.
NoMetrics ==
    [cluster_health |-> -1, osd_up |-> -1, osd_in |-> -1,
     pg_degraded |-> -1, pg_down |-> -1]

NoCall == [key |-> "", resp |-> NoResponse, out |-> NoOutcome]

NoArgs ==
    [metrics |-> NoMetrics, root_causes |-> <<>>, impact |-> <<>>,
     immediate |-> <<>>, preventive |-> <<>>, risk |-> ""]

AllNames == {"metrics", "root_causes", "impact", "immediate", "preventive", "risk"}

Init ==
    /\ pc = "collect"
    /\ vals = <<>>
    /\ defaulted = {}
    /\ call = NoCall
    /\ bound = {}
    /\ metrics = NoMetrics
    /\ root_causes = <<>>
    /\ impact = <<>>
    /\ immediate = <<>>
    /\ preventive = <<>>
    /\ risk = ""
    /\ pdf_calls = 0
    /\ pdf_args = NoArgs
    /\ pdf_written = FALSE
    /\ error = ""
    /\ calls = 0

\* ------------------------------------------------------------------
\* collect_ceph_metrics (lines 29-40)
\* ------------------------------------------------------------------

\* One entry of the dict display: query_prometheus(key) returns or raises.
\* An exception is not caught anywhere, so it ends the run.
Query ==
    /\ pc = "collect"
    /\ Len(vals) < NumKeys
    /\ \E r \in Responses :
          LET key == Keys[Len(vals) + 1]
              out == query_prometheus(r)
          IN  /\ call' = [key |-> key, resp |-> r, out |-> out]
              /\ IF out.raised # ""
                 THEN /\ pc' = "crashed"
                      /\ error' = out.raised
                      /\ UNCHANGED <<vals, defaulted>>
                 ELSE /\ vals' = Append(vals, out.value)
                      /\ defaulted' = IF out.defaulted
                                      THEN defaulted \cup {key}
                                      ELSE defaulted
                      /\ UNCHANGED <<pc, error>>
    /\ UNCHANGED <<bound, metrics, results, pdf_calls, pdf_args, pdf_written, calls>>

\* return metrics; line 168 binds it.
CollectReturn ==
    /\ pc = "collect"
    /\ Len(vals) = NumKeys
    /\ metrics' = [cluster_health |-> vals[1], osd_up |-> vals[2],
                   osd_in |-> vals[3], pg_degraded |-> vals[4],
                   pg_down |-> vals[5]]
    /\ bound' = bound \cup {"metrics"}
    /\ call' = NoCall
    /\ pc' = "root_cause"
    /\ UNCHANGED <<vals, defaulted, results, pdf_calls, pdf_args, pdf_written,
                   error, calls>>

\* ------------------------------------------------------------------
\* Effects of the calls of the three analysis functions
\* ------------------------------------------------------------------

\* Mutant: generate_root_cause clears pg_down in the caller's dict.
Call_generate_root_cause_mutating ==
    /\ root_causes' = generate_root_cause(metrics)
    /\ bound' = bound \cup {"root_causes"}
    /\ metrics' = [metrics EXCEPT !.pg_down = 0]
    /\ UNCHANGED <<impact, immediate, preventive, risk>>

\* root_causes = generate_root_cause(metrics)
Call_generate_root_cause ==
    /\ root_causes' = generate_root_cause(metrics)
    /\ bound' = bound \cup {"root_causes"}
    /\ UNCHANGED <<metrics, impact, immediate, preventive, risk>>

\* impact, immediate, preventive = derive_impact_and_actions(metrics)
Call_derive_impact_and_actions ==
    /\ impact' = derive_impact_and_actions(metrics).impact
    /\ immediate' = derive_impact_and_actions(metrics).immediate
    /\ preventive' = derive_impact_and_actions(metrics).preventive
    /\ bound' = bound \cup {"impact", "immediate", "preventive"}
    /\ UNCHANGED <<metrics, root_causes, risk>>

\* risk = predict_failure(metrics)
Call_predict_failure ==
    /\ risk' = predict_failure(metrics)
    /\ bound' = bound \cup {"risk"}
    /\ UNCHANGED <<metrics, root_causes, impact, immediate, preventive>>

\* ------------------------------------------------------------------
\* __main__ (lines 167-181)
\* ------------------------------------------------------------------

\* Mutant: the derive and predict steps are skipped.
StepRootCause_skip_to_pdf ==
    /\ pc = "root_cause"
    /\ Call_generate_root_cause
    /\ pc' = "pdf"
    /\ UNCHANGED <<vals, defaulted, call, pdf_calls, pdf_args, pdf_written,
                   error, calls>>

StepRootCause ==
    /\ pc = "root_cause"
    /\ Call_generate_root_cause
    /\ pc' = "derive"
    /\ UNCHANGED <<vals, defaulted, call, pdf_calls, pdf_args, pdf_written,
                   error, calls>>

StepDerive ==
    /\ pc = "derive"
    /\ Call_derive_impact_and_actions
    /\ pc' = "predict"
    /\ UNCHANGED <<vals, defaulted, call, pdf_calls, pdf_args, pdf_written,
                   error, calls>>

StepPredict ==
    /\ pc = "predict"
    /\ Call_predict_failure
    /\ pc' = "pdf"
    /\ UNCHANGED <<vals, defaulted, call, pdf_calls, pdf_args, pdf_written,
                   error, calls>>

\* generate_pdf(...): builds the story from its arguments; doc.build writes
\* the file or raises (unwritable path), which ends the run.
GeneratePdf ==
    /\ pc = "pdf"
    /\ pdf_calls' = pdf_calls + 1
    /\ pdf_args' = [metrics |-> metrics, root_causes |-> root_causes,
                    impact |-> impact, immediate |-> immediate,
                    preventive |-> preventive, risk |-> risk]
    /\ \E ok \in BOOLEAN :
          IF ok
          THEN /\ pdf_written' = TRUE
               /\ pc' = "summary"
               /\ UNCHANGED error
          ELSE /\ pc' = "crashed"
               /\ error' = "OSError"
               /\ UNCHANGED pdf_written
    /\ UNCHANGED <<vals, defaulted, call, bound, metrics, results, calls>>

\* The RCA SUMMARY prints.
Summary ==
    /\ pc = "summary"
    /\ pc' = "done"
    /\ UNCHANGED <<vals, defaulted, call, bound, metrics, results, pdf_calls,
                   pdf_args, pdf_written, error, calls>>

Next ==
    \/ Query
    \/ CollectReturn
    \/ StepRootCause
    \/ StepDerive
    \/ StepPredict
    \/ GeneratePdf
    \/ Summary

Spec == Init /\ [][Next]_vars

\* ------------------------------------------------------------------
\* The analysis functions applied to any metrics record, repeatedly and
\* in any order
\* ------------------------------------------------------------------

InitPure ==
    /\ pc = "pure"
    /\ vals = <<>>
    /\ defaulted = {}
    /\ call = NoCall
    /\ bound = {"metrics"}
    /\ metrics \in MetricsRecords
    /\ root_causes = <<>>
    /\ impact = <<>>
    /\ immediate = <<>>
    /\ preventive = <<>>
    /\ risk = ""
    /\ pdf_calls = 0
    /\ pdf_args = NoArgs
    /\ pdf_written = FALSE
    /\ error = ""
    /\ calls = 0

PureFrame ==
    /\ pc = "pure"
    /\ calls < MaxCalls
    /\ calls' = calls + 1
    /\ UNCHANGED <<pc, vals, defaulted, call, pdf_calls, pdf_args, pdf_written, error>>

PureRootCause == PureFrame /\ Call_generate_root_cause

PureDerive == PureFrame /\ Call_derive_impact_and_actions

PurePredict == PureFrame /\ Call_predict_failure

NextPure ==
    \/ PureRootCause
    \/ PureDerive
    \/ PurePredict

SpecPure == InitPure /\ [][NextPure]_vars

\* ------------------------------------------------------------------
\* Properties
\* ------------------------------------------------------------------

Range(f) == {f[i] : i \in DOMAIN f}

HealthCause == "Ceph cluster is reporting HEALTH_WARN or HEALTH_ERR"

NoAnomaly == "No anomalies detected in Ceph cluster"

RiskLevels == {"LOW RISK", "MEDIUM RISK", "HIGH RISK"}

\* No trigger fires: health OK, no OSD down, no degraded PG, no PG down.
NoTrigger(m) ==
    /\ m.cluster_health = 1
    /\ m.osd_up >= m.osd_in
    /\ m.pg_degraded = 0
    /\ m.pg_down = 0

\* The additive scorer of the specification: +40, +30, +20, thresholds 30 and 60.
ReferenceLevel(m) ==
    LET score == (IF m.cluster_health # 1 THEN 40 ELSE 0)
                 + (IF m.osd_up < m.osd_in THEN 30 ELSE 0)
                 + (IF m.pg_degraded > 0 THEN 20 ELSE 0)
    IN  IF score >= 60 THEN "HIGH RISK"
        ELSE IF score >= 30 THEN "MEDIUM RISK"
        ELSE "LOW RISK"

\* requests.get raised, or the HTTP status is not 2xx.
TransportError(r) ==
    \/ r.kind = "exception"
    \/ r.kind = "http" /\ ~(r.code >= 200 /\ r.code < 300)

\* A successful response with an empty result.
MetricAbsent(r) ==
    /\ r.kind = "http" /\ r.code >= 200 /\ r.code < 300
    /\ r.isjson /\ r.status = "success" /\ r.result = <<>>

\* A delivered answer whose status is not success or whose sample does not parse.
PresentButInvalid(r) ==
    /\ r.kind = "http" /\ r.code >= 200 /\ r.code < 300 /\ r.isjson
    /\ \/ r.status # "success"
       \/ r.result # <<>> /\ r.result[1] \notin {ToString(n) : n \in 0..MaxVal} \cup {"1.0"}

\* C1: whenever osd_up == 0, predict_failure returns HIGH RISK, whatever
\* the other four metrics are.
C1_Claim ==
    ("risk" \in bound /\ metrics.osd_up = 0) => risk = "HIGH RISK"

\* C2: for every combination of the three triggers, predict_failure returns
\* the level of the reference additive scorer (+40/+30/+20, <30 LOW,
\* 30-59 MEDIUM, >=60 HIGH).
C2_Claim ==
    "risk" \in bound => risk = ReferenceLevel(metrics)

\* C3: the list returned by generate_root_cause is never empty, and the
\* 'No anomalies detected' reason is in it exactly when no trigger fires,
\* and then it is the only element.
C3_RootCauseCanonical ==
    "root_causes" \in bound =>
        /\ Len(root_causes) >= 1
        /\ (NoAnomaly \in Range(root_causes)) <=> NoTrigger(metrics)
        /\ NoTrigger(metrics) => root_causes = <<NoAnomaly>>

C3_Witness ==
    /\ pc = "derive"
    /\ NoTrigger(metrics)
    /\ root_causes = <<NoAnomaly>>

\* C4: every section handed to generate_pdf is non-empty: four lists with
\* at least one entry each, and a risk that is one of the three levels.
C4_SectionsNonEmpty ==
    pdf_calls > 0 =>
        /\ Len(pdf_args.root_causes) >= 1
        /\ Len(pdf_args.impact) >= 1
        /\ Len(pdf_args.immediate) >= 1
        /\ Len(pdf_args.preventive) >= 1
        /\ pdf_args.risk \in RiskLevels

C4_Witness ==
    /\ pdf_calls = 1
    /\ pdf_args.impact = <<"No customer-visible impact detected">>
    /\ pdf_args.risk = "LOW RISK"

\* C5: when a metric query fails with a transport error, the run ends
\* there: generate_pdf is never invoked, no analysis result is ever bound,
\* metrics is never bound, no value is recorded for the failed metric, and
\* no step is taken after the failure.
C5_AbortState ==
    (call # NoCall /\ TransportError(call.resp)) =>
        /\ pc = "crashed"
        /\ error \in {"RequestException", "HTTPError"}
        /\ bound = {}
        /\ pdf_calls = 0
        /\ ~pdf_written
        /\ Len(vals) < NumKeys
        /\ Keys[Len(vals) + 1] = call.key
        /\ call.key \notin defaulted

C5_TransportErrorAborts ==
    /\ []C5_AbortState
    /\ [][pc # "crashed"]_vars

C5_Witness ==
    /\ pc = "crashed"
    /\ TransportError(call.resp)
    /\ call.key = "osd_in"
    /\ Len(vals) = 2

\* C6: query_prometheus returns the default 0 only for an absent metric
\* (successful response, empty result); a response whose value is present
\* but invalid (unparseable sample, or status not 'success') makes the
\* call fail.
C6_Claim ==
    call # NoCall =>
        /\ call.out.defaulted => MetricAbsent(call.resp)
        /\ PresentButInvalid(call.resp) => call.out.raised # ""

\* C7: a cluster_health reading that was defaulted or differs from the
\* healthy value is never treated as OK: the health warning cause is
\* reported and the risk is not LOW RISK, whatever the other metrics are.
C7_HealthNeverSilentlyOK ==
    ("risk" \in bound /\ ("cluster_health" \in defaulted \/ metrics.cluster_health # 1)) =>
        /\ HealthCause \in Range(root_causes)
        /\ risk # "LOW RISK"

C7_Witness ==
    /\ "risk" \in bound
    /\ "cluster_health" \in defaulted
    /\ metrics.osd_up >= metrics.osd_in
    /\ metrics.pg_degraded = 0
    /\ risk = "MEDIUM RISK"

\* C8: generate_pdf is invoked at most once, and only when all five
\* metrics were collected and root causes, impact, immediate actions,
\* preventive actions and risk were all computed from that metrics record.
C8_CompleteOrNone ==
    /\ pdf_calls <= 1
    /\ pc \in {"pdf", "summary", "done"} \/ pdf_calls = 1 =>
          /\ bound = AllNames
          /\ Len(vals) = NumKeys
          /\ \A i \in 1..NumKeys : vals[i] \in 0..MaxVal
          /\ metrics = [cluster_health |-> vals[1], osd_up |-> vals[2],
                        osd_in |-> vals[3], pg_degraded |-> vals[4],
                        pg_down |-> vals[5]]
          /\ root_causes = generate_root_cause(metrics)
          /\ <<impact, immediate, preventive>> =
                <<derive_impact_and_actions(metrics).impact,
                  derive_impact_and_actions(metrics).immediate,
                  derive_impact_and_actions(metrics).preventive>>
          /\ risk = predict_failure(metrics)
    /\ pdf_calls = 1 =>
          pdf_args = [metrics |-> metrics, root_causes |-> root_causes,
                      impact |-> impact, immediate |-> immediate,
                      preventive |-> preventive, risk |-> risk]
    /\ pdf_written => pdf_calls = 1

C8_Witness ==
    /\ pc = "done"
    /\ pdf_calls = 1
    /\ pdf_written
    /\ Len(root_causes) = 4

\* C9: each call of generate_root_cause, derive_impact_and_actions or
\* predict_failure leaves every field of metrics unchanged, and a result
\* that was already computed is computed again unchanged, in whatever
\* order the calls are made.
C9_PureFunctions ==
    [][/\ metrics' = metrics
       /\ "root_causes" \in bound => root_causes' = root_causes
       /\ "impact" \in bound => <<impact', immediate', preventive'>> =
                                  <<impact, immediate, preventive>>
       /\ "risk" \in bound => risk' = risk]_vars

C9_Witness ==
    /\ pc = "pure"
    /\ calls = MaxCalls
    /\ bound = AllNames
    /\ metrics.pg_down > 0
    /\ Len(root_causes) >= 2

\* C10: derive_impact_and_actions returns the 'No customer-visible impact
\* detected' / 'No immediate remediation required' entries exactly when
\* generate_root_cause returns the 'No anomalies detected' entry.
C10_Claim ==
    {"root_causes", "impact", "immediate"} \subseteq bound =>
        ((/\ "No customer-visible impact detected" \in Range(impact)
          /\ "No immediate remediation required" \in Range(immediate))
         <=> NoAnomaly \in Range(root_causes))

====
